---- MODULE Spec2Model ----
(***************************************************************************)
(* Model of the reactive update core of reui / thunderclap:                *)
(*   - the Checkbox widget (src/src/ui/checkbox.rs): its pipeline of       *)
(*     window-event handlers, its update and its layout inbox;             *)
(*   - the VStack layout container (src/thunderclap/src/ui/vstack.rs):     *)
(*     push / remove / update and the rectangles it negotiates with its    *)
(*     children over bidirectional queues.                                 *)
(* Lengths are integers; widths are even so that the centring division by  *)
(* two is exact, as it is for the f32 values of the program.               *)
(***************************************************************************)
EXTENDS Integers, Sequences, FiniteSets, TLC

\* ------------------------------------------------------------------ bounds
MaxOps == 3           \* calls of push, remove, set_size, set_position and drops in one run
MaxStackOps == 4      \* the same, in the runs of one container with three children
MaxPending == 2       \* rectangles a checkbox leaves unread before its container's next update
MaxInputs == 3        \* window events and calls of disabled.set in one run

\* ------------------------------------------------------------- the widgets
Stacks == {"v1", "v2"}
Leaves == {"c1", "c2", "c3"}
Widgets == Stacks \cup Leaves

None == [owner |-> "none", id |-> 0]

Rect(x, y, w, h) == [x |-> x, y |-> y, w |-> w, h |-> h]
ZeroRect == Rect(0, 0, 0, 0)

\* Rect::contains of euclid: the origin is inside, the far edges are not.
Contains(r, p) ==
    /\ r.x <= p.x /\ p.x < r.x + r.w
    /\ r.y <= p.y /\ p.y < r.y + r.h

Item(t, b, a) == [top_margin |-> t, bottom_margin |-> b, alignment |-> a]

\* VStack::from_theme: the container's own default item.
DefaultItem == Item(0, 0, "Begin")

\* Option<VStackItem>: None is <<>>, Some(item) is <<item>>.  The data each
\* widget is pushed with: between them every alignment and both margins.
PushData(w) ==
    IF w = "c1" THEN { <<>>, << Item(1, 0, "Middle") >> }
    ELSE { << Item(0, 1, "End") >>, << Item(1, 1, "Stretch") >> }

\* The data the three children of one container are pushed with.
StackData(w) ==
    CASE w = "c1" -> << Item(1, 1, "Stretch") >>
      [] w = "c2" -> <<>>
      [] OTHER -> << Item(0, 1, "End") >>

\* The sizes and positions a caller gives to set_size / set_position.
Sizes == { [w |-> 6, h |-> 3] }
Positions == { [x |-> 3, y |-> 1] }

VARIABLES
    rect,          \* every widget's rectangle
    layout,        \* every widget's layout binding (WidgetLayoutEvents): None or (owner, id)
    dropped,       \* the widget has emitted its DropEvent (Drop for Checkbox)
    vs,            \* per container: rects (IndexMap, in order), next_rect_id, dirty
    evq,           \* the bidirectional queues, keyed by <<container, id>>: down, up
    cb,            \* per checkbox: checked, disabled, interaction, event_queue, ...
    window_queue,  \* the window event queue of the update auxiliary
    rectAtPush,    \* history: the rectangle a widget had at its latest push
    ops,           \* history: the number of layout operations the run may still call
    since,         \* history: what touched the container since its last update
    last           \* history: the operation that ran last and what it did

vars == << rect, layout, dropped, vs, evq, cb, window_queue, rectAtPush, ops, since, last >>

\* ---------------------------------------------------------------- helpers
Last(s) == s[Len(s)]

\* The keys of the IndexMap of records.
Ids(recs) == { recs[i].key : i \in 1..Len(recs) }

\* The position of the record under this key (0 when there is none).
IndexOf(recs, id) ==
    IF \E i \in 1..Len(recs) : recs[i].key = id
    THEN CHOOSE i \in 1..Len(recs) : recs[i].key = id
    ELSE 0

\* IndexMap::remove is swap_remove: the last pair takes the removed pair's place.
SwapRemove(recs, i) ==
    IF i = Len(recs) THEN SubSeq(recs, 1, Len(recs) - 1)
    ELSE [ j \in 1..(Len(recs) - 1) |-> IF j = i THEN Last(recs) ELSE recs[j] ]

IndexMapRemove(recs, id) ==
    IF IndexOf(recs, id) = 0 THEN recs ELSE SwapRemove(recs, IndexOf(recs, id))

\* --------------------------------------------------- bidirectional queues
Key(b) == << b.owner, b.id >>

EmptyQueue == [down |-> <<>>, up |-> <<>>]

\* The primary end lives in the container's record, the secondary end in the
\* child's binding.
PrimaryAlive(k, vs1) == k[2] \in Ids(vs1[k[1]].rects)
SecondaryAlive(k, layout1) == \E w \in Widgets : layout1[w] # None /\ Key(layout1[w]) = k

\* A queue whose two ends are gone is freed; what was emitted towards an end that
\* is gone can never be received, and is not kept.
Collect(q, vs1, layout1) ==
    LET keep == { k \in DOMAIN q : PrimaryAlive(k, vs1) \/ SecondaryAlive(k, layout1) }
    IN [ k \in keep |->
            [ down |-> IF SecondaryAlive(k, layout1) THEN q[k].down ELSE <<>>,
              up   |-> IF PrimaryAlive(k, vs1) THEN q[k].up ELSE <<>> ] ]

\* WidgetLayoutEvents::notify: emit the rectangle on the secondary end, when bound.
Notify(q, b, r) ==
    IF b # None /\ Key(b) \in DOMAIN q
    THEN [q EXCEPT ![Key(b)].up = Append(@, r)]
    ELSE q

\* What WidgetLayoutEvents::receive would hand out: the pending rectangles.
Inbox(q, b) ==
    IF b # None /\ Key(b) \in DOMAIN q THEN q[Key(b)].down ELSE <<>>

\* retrieve_newest on the secondary end: all pending rectangles are consumed.
ClearInbox(q, b) ==
    IF b # None /\ Key(b) \in DOMAIN q
    THEN [q EXCEPT ![Key(b)].down = <<>>]
    ELSE q

\* ------------------------------------------------- the world of widgets
\* The operations below are functions of the record of all widget state.
\* emitted is the trace of one operation: the rectangle update emitted per record id.
World == [rect |-> rect, layout |-> layout, vs |-> vs, evq |-> evq, cb |-> cb,
          emitted |-> <<>>]

\* Repaintable::repaint of a checkbox: the command group is marked for repaint.
Repaint(w0, c) == [w0 EXCEPT !.cb[c].repaint = TRUE]

\* CoreWidget::on_transform of VStackWidget.
OnTransform(w0, v) ==
    [w0 EXCEPT !.vs[v].dirty = TRUE,
               !.evq = Notify(w0.evq, w0.layout[v], w0.rect[v])]

\* Resizable::set_size of VStackWidget: the size is stored, then on_transform runs.
VStackSetSizeOp(w0, v, size) ==
    OnTransform([w0 EXCEPT !.rect[v].w = size.w, !.rect[v].h = size.h], v)

\* Movable::set_position of VStackWidget.
VStackSetPositionOp(w0, v, pos) ==
    OnTransform([w0 EXCEPT !.rect[v].x = pos.x, !.rect[v].y = pos.y], v)

\* Resizable::set_size and Movable::set_position of Checkbox.
CheckboxSetSizeOp(w0, c, size) ==
    LET w1 == Repaint([w0 EXCEPT !.rect[c].w = size.w, !.rect[c].h = size.h], c)
    IN [w1 EXCEPT !.evq = Notify(w1.evq, w1.layout[c], w1.rect[c])]

CheckboxSetPositionOp(w0, c, pos) ==
    LET w1 == Repaint([w0 EXCEPT !.rect[c].x = pos.x, !.rect[c].y = pos.y], c)
    IN [w1 EXCEPT !.evq = Notify(w1.evq, w1.layout[c], w1.rect[c])]

\* set_ctxt_rect: the whole rectangle is replaced, with the effects of a move
\* and a resize of that widget.
SetCtxtRect(w0, w, r) ==
    IF w \in Stacks
    THEN OnTransform([w0 EXCEPT !.rect[w] = r], w)
    ELSE LET w1 == Repaint([w0 EXCEPT !.rect[w] = r], w)
         IN [w1 EXCEPT !.evq = Notify(w1.evq, w1.layout[w], w1.rect[w])]

\* LayableWidget::listen_to_layout: the binding is replaced.
ListenToLayout(w0, c, b) == [w0 EXCEPT !.layout[c] = b]

\* ------------------------------------------------------------------ VStack
\* resize_to_fit's accumulation over the records, in order.
RECURSIVE FitSize(_, _)
FitSize(recs, acc) ==
    IF recs = <<>> THEN acc
    ELSE LET child == recs[1]
             height == acc.h + child.rect.h + child.data.top_margin + child.data.bottom_margin
             width == IF child.rect.w > acc.w THEN child.rect.w ELSE acc.w
         IN FitSize(Tail(recs), [w |-> width, h |-> height])

\* Mutant: the container keeps the size it has.
ResizeToFitKeeps(w0, v) == w0

ResizeToFit(w0, v) == VStackSetSizeOp(w0, v, FitSize(w0.vs[v].rects, [w |-> 0, h |-> 0]))

\* display::center_horizontally(inner, outer).x
CenterHorizontallyX(inner, outer) == outer.x + (outer.w - inner.w) \div 2

\* Mutant: the counter of identifiers is not advanced.
AllocateIdReuses(w0, v) == w0

\* push: self.next_rect_id += 1
AllocateId(w0, v) == [w0 EXCEPT !.vs[v].next_rect_id = @ + 1]

\* Layout::push for VStackWidget.  own_width is history: the width the child
\* last had of its own accord, at the push or in its latest report.
PushOp(w0, v, opt, child) ==
    LET id == w0.vs[v].next_rect_id
        w1 == AllocateId([w0 EXCEPT !.vs[v].dirty = TRUE], v)
        w2 == [ListenToLayout(w1, child, [owner |-> v, id |-> id])
                 EXCEPT !.evq = [ k \in DOMAIN w1.evq \cup {<<v, id>>} |->
                                    IF k = <<v, id>> THEN EmptyQueue ELSE w1.evq[k] ]]
        r == w2.rect[child]
        data == [ key |-> id,
                  data |-> IF opt = <<>> THEN DefaultItem ELSE opt[1],
                  child |-> child,
                  rect |-> r,
                  original_rect |-> r,
                  id |-> id,
                  own_width |-> r.w ]
        recs == IF IndexOf(w2.vs[v].rects, id) = 0
                THEN Append(w2.vs[v].rects, data)
                ELSE [w2.vs[v].rects EXCEPT ![IndexOf(w2.vs[v].rects, id)] = data]
        w3 == [w2 EXCEPT !.vs[v].rects = recs]
    IN ResizeToFit(w3, v)

\* Layout::remove for VStackWidget.
RemoveFinds(w0, v, child) ==
    /\ w0.layout[child] # None
    /\ IndexOf(w0.vs[v].rects, w0.layout[child].id) # 0

\* Mutant: the rectangle restored is the last one recorded, not the original.
RemoveOpRestoresRecorded(w0, v, child, restore_original) ==
    IF RemoveFinds(w0, v, child)
    THEN LET id == w0.layout[child].id
             data == w0.vs[v].rects[IndexOf(w0.vs[v].rects, id)]
             w1 == [w0 EXCEPT !.vs[v].rects = IndexMapRemove(@, id)]
             w2 == ListenToLayout(w1, child, None)
         IN IF restore_original THEN SetCtxtRect(w2, child, data.rect) ELSE w2
    ELSE w0

RemoveOp(w0, v, child, restore_original) ==
    IF RemoveFinds(w0, v, child)
    THEN LET id == w0.layout[child].id
             data == w0.vs[v].rects[IndexOf(w0.vs[v].rects, id)]
             w1 == [w0 EXCEPT !.vs[v].rects = IndexMapRemove(@, id)]
             w2 == ListenToLayout(w1, child, None)
         IN IF restore_original THEN SetCtxtRect(w2, child, data.original_rect) ELSE w2
    ELSE w0

\* update, first part: the container's own inbox.
UpdateReceive(w0, v) ==
    LET inbox == Inbox(w0.evq, w0.layout[v])
    IN IF inbox # <<>>
       THEN LET w1 == [w0 EXCEPT !.evq = ClearInbox(w0.evq, w0.layout[v])]
                w2 == SetCtxtRect(w1, v, Last(inbox))
            IN [w2 EXCEPT !.vs[v].dirty = TRUE]
       ELSE w0

\* update, second part: the records whose child was dropped, in iteration order.
\* Mutant: the drop listeners are not looked at.
RemovalsNone(recs, dead) == <<>>

RECURSIVE Removals(_, _)
Removals(recs, dead) ==
    IF recs = <<>> THEN <<>>
    ELSE IF recs[1].child \in dead
         THEN <<recs[1].id>> \o Removals(Tail(recs), dead)
         ELSE Removals(Tail(recs), dead)

RECURSIVE RemoveAll(_, _)
RemoveAll(recs, removals) ==
    IF removals = <<>> THEN recs
    ELSE RemoveAll(IndexMapRemove(recs, removals[1]), Tail(removals))

\* One record of the scan: a dropped child's record is left for removal (continue),
\* any other record takes the newest rectangle its child reported.
ScanRecord(data, q, v, dead) ==
    IF data.child \in dead THEN data
    ELSE IF q[<<v, data.id>>].up # <<>>
         THEN [data EXCEPT !.rect = Last(q[<<v, data.id>>].up),
                           !.own_width = Last(q[<<v, data.id>>].up).w]
         ELSE data

ScanDirty(recs, q, v, dead) ==
    \E i \in 1..Len(recs) : recs[i].child \in dead \/ q[<<v, recs[i].id>>].up # <<>>

UpdateScan(w0, v, dead) ==
    LET recs == w0.vs[v].rects
        scanned == [ i \in 1..Len(recs) |-> ScanRecord(recs[i], w0.evq, v, dead) ]
        q == [ k \in DOMAIN w0.evq |->
                 IF k[1] = v /\ k[2] \in Ids(recs) /\ recs[IndexOf(recs, k[2])].child \notin dead
                 THEN [w0.evq[k] EXCEPT !.up = <<>>]
                 ELSE w0.evq[k] ]
    IN [w0 EXCEPT !.vs[v].rects = RemoveAll(scanned, Removals(recs, dead)),
                  !.vs[v].dirty = @ \/ ScanDirty(recs, w0.evq, v, dead),
                  !.evq = q]

\* Mutant: End does not subtract the child's width.
AlignXEndAtEdge(alignment, r, abs_rect) ==
    CASE alignment = "Begin" -> abs_rect.x
      [] alignment = "Middle" -> CenterHorizontallyX(r, abs_rect)
      [] alignment = "End" -> abs_rect.x + abs_rect.w
      [] alignment = "Stretch" -> abs_rect.x

\* The horizontal origin the alignment gives, and the width it leaves.
AlignX(alignment, r, abs_rect) ==
    CASE alignment = "Begin" -> abs_rect.x
      [] alignment = "Middle" -> CenterHorizontallyX(r, abs_rect)
      [] alignment = "End" -> abs_rect.x + abs_rect.w - r.w
      [] alignment = "Stretch" -> abs_rect.x

AlignWidth(alignment, r, abs_rect) ==
    IF alignment = "Stretch" THEN abs_rect.w ELSE r.w

\* update, third part: the walk over the records with the running offset.
RECURSIVE LayOut(_, _, _)
LayOut(recs, advance, abs_rect) ==
    IF recs = <<>> THEN <<>>
    ELSE LET data == recs[1]
             adv == advance + data.data.top_margin
             r == Rect(AlignX(data.data.alignment, data.rect, abs_rect),
                       adv,
                       AlignWidth(data.data.alignment, data.rect, abs_rect),
                       data.rect.h)
         IN << [data EXCEPT !.rect = r] >>
              \o LayOut(Tail(recs), adv + r.h + data.data.bottom_margin, abs_rect)

\* Mutant: the dirty flag is not cleared at the end of the layout.
ClearDirtyForgotten(w0, v) == w0

ClearDirty(w0, v) == [w0 EXCEPT !.vs[v].dirty = FALSE]

\* The rectangles of the walk are emitted to the children and recorded.
EmitAll(w1, v, recs) ==
    LET q == [ k \in DOMAIN w1.evq |->
                 IF k[1] = v /\ k[2] \in Ids(recs)
                 THEN [w1.evq[k] EXCEPT !.down = Append(@, recs[IndexOf(recs, k[2])].rect)]
                 ELSE w1.evq[k] ]
        out == [ id \in Ids(recs) |-> recs[IndexOf(recs, id)].rect ]
    IN ClearDirty([w1 EXCEPT !.vs[v].rects = recs, !.evq = q, !.emitted = out], v)

\* The walk starts at the origin of the container's rectangle.
LayOutFrom(w1, v) ==
    CHOOSE w2 \in { EmitAll(w1, v, recs) :
                      recs \in { LayOut(w1.vs[v].rects, w1.rect[v].y, w1.rect[v]) } } : TRUE

\* The world after resize_to_fit (w1) is computed once and laid out.
UpdateLayout(w0, v) ==
    IF w0.vs[v].dirty
    THEN CHOOSE w2 \in { LayOutFrom(w1, v) : w1 \in { ResizeToFit(w0, v) } } : TRUE
    ELSE w0

\* Widget::update for VStackWidget.
VStackUpdateOp(w0, v, dead) == UpdateLayout(UpdateScan(UpdateReceive(w0, v), v, dead), v)

\* ---------------------------------------------------------------- Checkbox
PointIn == [x |-> 11, y |-> 10]
PointOut == [x |-> 0, y |-> 0]
NoPoint == [x |-> 0 - 1, y |-> 0 - 1]

WindowEvent(topic, pos, button) == [topic |-> topic, pos |-> pos, button |-> button]

\* The window events the driver emits.
WindowEvents ==
    { WindowEvent("mouse_press", PointIn, "Left"),
      WindowEvent("mouse_press", PointOut, "Left"),
      WindowEvent("mouse_press", PointIn, "Right"),
      WindowEvent("mouse_release", PointIn, "Left"),
      WindowEvent("mouse_release", PointOut, "Left"),
      WindowEvent("mouse_release", PointIn, "Right"),
      WindowEvent("mouse_move", PointIn, "none"),
      WindowEvent("mouse_move", PointOut, "none"),
      WindowEvent("clear_focus", NoPoint, "none"),
      WindowEvent("key_press", NoPoint, "none") }

\* ToggledEvent::new(is_start, data)
ToggledEventNew(is_start, data) ==
    [toggle |-> IF is_start THEN "Start" ELSE "Stop", data |-> data]

CheckboxEvent(kind, toggled) == [kind |-> kind, toggle |-> toggled.toggle, data |-> toggled.data]

\* RcEventQueue::emit_owned on the checkbox's event_queue.
Emit(obj, ev) == [obj EXCEPT !.event_queue = Append(@, ev)]

\* CommandGroup::repaint
CbRepaint(obj) == [obj EXCEPT !.repaint = TRUE]

\* Observed::set on checked: the value is replaced and one change event is emitted.
CheckedSet(obj, value) ==
    [obj EXCEPT !.checked = value, !.checked_changes = @ + 1, !.checked_sets = @ + 1]

\* Observed::set on disabled.
DisabledSet(obj, value) ==
    [obj EXCEPT !.disabled = value, !.disabled_changes = @ + 1, !.disabled_sets = @ + 1]

\* Widget::bounds of Checkbox: the painter's paint_hint of the rectangle, taken
\* to be the rectangle itself.
Bounds(r) == r

\* The conditions under which the handlers act (event.with(...) is Some).
PressAccepted(obj, r, event) ==
    /\ ~obj.disabled
    /\ event.button = "Left"
    /\ Contains(Bounds(r), event.pos)

\* Mutant: a release is accepted without a press before it.
ReleaseAcceptedUnpressed(obj, event) ==
    /\ ~obj.disabled
    /\ event.button = "Left"

ReleaseAccepted(obj, event) ==
    /\ ~obj.disabled
    /\ event.button = "Left"
    /\ "PRESSED" \in obj.interaction

\* pipeline handler mouse_press
MousePress(obj, r, event) ==
    IF PressAccepted(obj, r, event)
    THEN LET o1 == [obj EXCEPT !.interaction = @ \cup {"PRESSED"}, !.presses = @ + 1]
             o2 == Emit(o1, CheckboxEvent("Press", ToggledEventNew(TRUE, event.pos)))
         IN CbRepaint(o2)
    ELSE obj

\* The third event of mouse_release: the variant and its toggle.
ReleaseCheckEvent(obj, pos) == CheckboxEvent("Press", ToggledEventNew(obj.checked, pos))

\* Mutant: the release sets checked to its current value.
MouseReleaseKeepsValue(obj, r, event) ==
    IF ReleaseAccepted(obj, event)
    THEN LET o1 == [obj EXCEPT !.interaction = (@ \ {"PRESSED"}) \cup {"FOCUSED"},
                               !.releases = @ + 1]
             o2 == Emit(o1, CheckboxEvent("Press", ToggledEventNew(FALSE, event.pos)))
             o3 == CheckedSet(o2, o2.checked)
             o4 == Emit(o3, ReleaseCheckEvent(o3, event.pos))
         IN CbRepaint(o4)
    ELSE obj

\* pipeline handler mouse_release
MouseRelease(obj, r, event) ==
    IF ReleaseAccepted(obj, event)
    THEN LET o1 == [obj EXCEPT !.interaction = (@ \ {"PRESSED"}) \cup {"FOCUSED"},
                               !.releases = @ + 1,
                               !.focus_gains = @ + (IF "FOCUSED" \in obj.interaction THEN 0 ELSE 1)]
             o2 == Emit(o1, CheckboxEvent("Press", ToggledEventNew(FALSE, event.pos)))
             o3 == CheckedSet(o2, ~o2.checked)
             o4 == Emit(o3, ReleaseCheckEvent(o3, event.pos))
         IN CbRepaint(o4)
    ELSE obj

\* Mutant: a move inside the bounds reports the hover whether or not HOVERED is set.
MouseMoveRepeats(obj, r, event) ==
    IF Contains(Bounds(r), event.pos)
    THEN LET o1 == [obj EXCEPT !.interaction = @ \cup {"HOVERED"}]
             o2 == Emit(o1, CheckboxEvent("MouseHover", ToggledEventNew(TRUE, event.pos)))
         IN CbRepaint(o2)
    ELSE IF "HOVERED" \in obj.interaction
         THEN LET o1 == [obj EXCEPT !.interaction = @ \ {"HOVERED"}]
                  o2 == Emit(o1, CheckboxEvent("MouseHover", ToggledEventNew(FALSE, event.pos)))
              IN CbRepaint(o2)
         ELSE obj

\* pipeline handler mouse_move
MouseMove(obj, r, event) ==
    IF Contains(Bounds(r), event.pos)
    THEN IF "HOVERED" \notin obj.interaction
         THEN LET o1 == [obj EXCEPT !.interaction = @ \cup {"HOVERED"}]
                  o2 == Emit(o1, CheckboxEvent("MouseHover", ToggledEventNew(TRUE, event.pos)))
              IN CbRepaint(o2)
         ELSE obj
    ELSE IF "HOVERED" \in obj.interaction
         THEN LET o1 == [obj EXCEPT !.interaction = @ \ {"HOVERED"}]
                  o2 == Emit(o1, CheckboxEvent("MouseHover", ToggledEventNew(FALSE, event.pos)))
              IN CbRepaint(o2)
         ELSE obj

\* pipeline handler clear_focus
ClearFocus(obj, r, event) ==
    [obj EXCEPT !.interaction = @ \ {"FOCUSED"},
                !.focus_losses = @ + (IF "FOCUSED" \in obj.interaction THEN 1 ELSE 0)]

\* The topics the window-queue binding has a handler for.
HandledTopics == {"mouse_press", "mouse_release", "mouse_move", "clear_focus"}

\* Mutant: the binding has no mouse_move handler.
DispatchWithoutMove(obj, r, event, index) ==
    IF event.topic \notin (HandledTopics \ {"mouse_move"}) THEN obj
    ELSE LET o1 == [obj EXCEPT !.delivered = Append(@, index)]
         IN CASE event.topic = "mouse_press" -> MousePress(o1, r, event)
              [] event.topic = "mouse_release" -> MouseRelease(o1, r, event)
              [] event.topic = "clear_focus" -> ClearFocus(o1, r, event)

\* One event of the window queue handed to the handler of its topic; an event
\* whose topic has no handler is skipped.  delivered records the hand-over.
Dispatch(obj, r, event, index) ==
    IF event.topic \notin HandledTopics THEN obj
    ELSE LET o1 == [obj EXCEPT !.delivered = Append(@, index)]
         IN CASE event.topic = "mouse_press" -> MousePress(o1, r, event)
              [] event.topic = "mouse_release" -> MouseRelease(o1, r, event)
              [] event.topic = "mouse_move" -> MouseMove(o1, r, event)
              [] event.topic = "clear_focus" -> ClearFocus(o1, r, event)

\* The order in which one update drains the pending events of a source.
DrainOrder(from, to) == [ i \in 1..(to - from) |-> from + i ]

RECURSIVE DrainWindow(_, _, _, _)
DrainWindow(obj, r, queue, order) ==
    IF order = <<>> THEN obj
    ELSE DrainWindow(Dispatch(obj, r, queue[order[1]], order[1]), r, queue, Tail(order))

\* The cursor of the window-queue listener after a drain.
CursorAfterDrain(obj, queue) == Len(queue)

\* Mutant: the window-queue binding is drained before the change bindings.
PipelineUpdateWindowFirst(obj, r, queue) ==
    LET o1 == DrainWindow(obj, r, queue, DrainOrder(obj.cursor, Len(queue)))
        o2 == IF o1.checked_changes > 0
              THEN [CbRepaint(o1) EXCEPT !.checked_changes = 0,
                                         !.changes_handled = @ + o1.checked_changes]
              ELSE o1
        o3 == IF o2.disabled_changes > 0
              THEN [CbRepaint(o2) EXCEPT !.disabled_changes = 0]
              ELSE o2
    IN [o3 EXCEPT !.cursor = CursorAfterDrain(o3, queue)]

\* Pipeline::update: the bindings in declaration order; each drains its source.
PipelineUpdate(obj, r, queue) ==
    LET o1 == IF obj.checked_changes > 0
              THEN [CbRepaint(obj) EXCEPT !.checked_changes = 0,
                                          !.changes_handled = @ + obj.checked_changes]
              ELSE obj
        o2 == IF o1.disabled_changes > 0
              THEN [CbRepaint(o1) EXCEPT !.disabled_changes = 0]
              ELSE o1
        o3 == DrainWindow(o2, r, queue, DrainOrder(o2.cursor, Len(queue)))
    IN [o3 EXCEPT !.cursor = CursorAfterDrain(o3, queue)]

\* Widget::update of Checkbox, up to the focus comparison.
UpdateFocus(obj, r, queue) ==
    LET was_focused == "FOCUSED" \in obj.interaction
        o1 == PipelineUpdate(obj, r, queue)
    IN IF was_focused # ("FOCUSED" \in o1.interaction)
       THEN Emit(CbRepaint(o1), CheckboxEvent("Focus", ToggledEventNew(~was_focused, "unit")))
       ELSE o1

\* Mutant: the oldest pending rectangle is adopted.
UpdateLayoutInboxOldest(w0, c) ==
    LET inbox == Inbox(w0.evq, w0.layout[c])
    IN IF inbox # <<>>
       THEN Repaint([w0 EXCEPT !.rect[c] = inbox[1],
                               !.evq = ClearInbox(w0.evq, w0.layout[c])], c)
       ELSE w0

\* Widget::update of Checkbox, the layout inbox: the newest rectangle is adopted.
UpdateLayoutInbox(w0, c) ==
    LET inbox == Inbox(w0.evq, w0.layout[c])
    IN IF inbox # <<>>
       THEN Repaint([w0 EXCEPT !.rect[c] = Last(inbox),
                               !.evq = ClearInbox(w0.evq, w0.layout[c])], c)
       ELSE w0

\* Widget::update of Checkbox.
CheckboxUpdateOp(w0, c, queue) ==
    UpdateLayoutInbox([w0 EXCEPT !.cb[c] = UpdateFocus(w0.cb[c], w0.rect[c], queue)], c)

\* Widget::draw of Checkbox: the command group is pushed, the repaint request is met.
DrawOp(obj) == [obj EXCEPT !.repaint = FALSE]

\* ------------------------------------------------------------ the state
\* Checkbox::new(checked, disabled, position, ...).  The fields after cursor are
\* history: the window events handed to handlers, the presses and releases the
\* handlers accepted, the times the FOCUSED flag was set and cleared, the
\* calls of the two setters and the change events of checked that were handled.
NewCheckbox(checked, disabled) ==
    [ checked |-> checked, disabled |-> disabled,
      interaction |-> {},
      event_queue |-> <<>>,
      repaint |-> TRUE,
      checked_changes |-> 0, disabled_changes |-> 0,
      cursor |-> 0,
      checked0 |-> checked,
      delivered |-> <<>>, presses |-> 0, releases |-> 0,
      focus_gains |-> 0, focus_losses |-> 0,
      checked_sets |-> 0, disabled_sets |-> 0, changes_handled |-> 0 ]

\* VStack::construct
NewVStack == [rects |-> <<>>, next_rect_id |-> 0, dirty |-> TRUE]

\* The rectangle a checkbox is constructed with: its position and the size hint.
NewRect(c) ==
    CASE c = "c1" -> Rect(10, 10, 2, 1)
      [] c = "c2" -> Rect(0, 0, 4, 2)
      [] OTHER -> Rect(0, 0, 6, 1)

NoLast ==
    [ op |-> "none", w |-> "none", c |-> "none",
      since |-> "other", dirty |-> FALSE,
      idsBefore |-> {}, emitted |-> <<>>, recorded |-> <<>>,
      found |-> FALSE, managed |-> FALSE, restore |-> FALSE, repaintBefore |-> FALSE,
      rectBefore |-> ZeroRect, pending |-> <<>>,
      focusedBefore |-> FALSE, focusedAfter |-> FALSE,
      queueBefore |-> 0, cursorBefore |-> 0, changesBefore |-> 0,
      recsBefore |-> <<>>, layoutBefore |-> None, nextBefore |-> 0,
      checkedBefore |-> FALSE, interactionBefore |-> {}, setsBefore |-> 0 ]

InitWidgets ==
    /\ rect = [ w \in Widgets |-> IF w \in Stacks THEN ZeroRect ELSE NewRect(w) ]
    /\ layout = [ w \in Widgets |-> None ]
    /\ dropped = [ w \in Widgets |-> FALSE ]
    /\ vs = [ v \in Stacks |-> NewVStack ]
    /\ evq = <<>>
    /\ window_queue = <<>>
    /\ rectAtPush = [ w \in Widgets |-> ZeroRect ]
    /\ since = [ v \in Stacks |-> "other" ]
    /\ last = NoLast

Init ==
    /\ InitWidgets
    /\ ops = MaxOps
    /\ \E checked \in BOOLEAN, disabled \in BOOLEAN :
          cb = [ c \in Leaves |-> NewCheckbox(checked, disabled) ]

InitLayout ==
    /\ InitWidgets
    /\ ops = MaxOps
    /\ cb = [ c \in Leaves |-> NewCheckbox(FALSE, FALSE) ]

InitStack ==
    /\ InitWidgets
    /\ ops = MaxStackOps
    /\ cb = [ c \in Leaves |-> NewCheckbox(FALSE, FALSE) ]

\* ---------------------------------------------------------------- actions
\* The world an operation leaves becomes the next state.
Commit(w1) ==
    /\ rect' = w1.rect
    /\ layout' = w1.layout
    /\ vs' = w1.vs
    /\ evq' = Collect(w1.evq, w1.vs, w1.layout)
    /\ cb' = w1.cb

\* The containers that hold a record of this child.
Holders(c) == { v \in Stacks : \E i \in 1..Len(vs[v].rects) : vs[v].rects[i].child = c }

\* The container whose record is the primary end of this widget's binding.
Manager(w) ==
    IF layout[w] # None /\ PrimaryAlive(Key(layout[w]), vs) THEN {layout[w].owner} ELSE {}

Touch(vset, how) ==
    since' = [ v \in Stacks |->
                 IF v \in vset
                 THEN (IF how = "trigger" \/ since[v] = "trigger" THEN "trigger" ELSE "other")
                 ELSE since[v] ]

Alive(w) == ~dropped[w]

\* One more layout operation is called, within the budget of the run.
Called == ops > 0 /\ ops' = ops - 1

Push(v, opt, child) ==
    /\ Called
    /\ Alive(v) /\ Alive(child) /\ child # v
    /\ Commit(PushOp(World, v, opt, child))
    /\ rectAtPush' = [rectAtPush EXCEPT ![child] = rect[child]]
    /\ Touch({v}, "trigger")
    /\ last' = [NoLast EXCEPT !.op = "push", !.w = v, !.c = child,
                              !.rectBefore = rect[child],
                              !.recsBefore = vs[v].rects,
                              !.nextBefore = vs[v].next_rect_id]
    /\ UNCHANGED << dropped, window_queue >>

Remove(v, child, restore_original) ==
    /\ Called
    /\ Alive(v) /\ Alive(child) /\ child # v
    /\ Commit(RemoveOp(World, v, child, restore_original))
    /\ Touch(IF RemoveFinds(World, v, child) THEN {v} ELSE {}, "trigger")
    /\ last' = [NoLast EXCEPT !.op = "remove", !.w = v, !.c = child,
                              !.found = RemoveFinds(World, v, child),
                              !.managed = RemoveFinds(World, v, child) /\ layout[child].owner = v,
                              !.restore = restore_original,
                              !.rectBefore = rect[child],
                              !.recsBefore = vs[v].rects,
                              !.layoutBefore = layout[child]]
    /\ UNCHANGED << dropped, window_queue, rectAtPush >>

VStackUpdate(v) ==
    /\ Alive(v)
    /\ \E w1 \in { UpdateReceive(World, v) } :
       \E w2 \in { UpdateScan(w1, v, { w \in Widgets : dropped[w] }) } :
       \E w3 \in { UpdateLayout(w2, v) } :
          /\ Commit(w3)
          /\ last' = [NoLast EXCEPT !.op = "update", !.w = v,
                                    !.since = since[v],
                                    !.dirty = w2.vs[v].dirty,
                                    !.idsBefore = Ids(vs[v].rects),
                                    !.recsBefore = vs[v].rects,
                                    !.rectBefore = rect[v],
                                    !.emitted = w3.emitted,
                                    !.recorded = [ id \in Ids(w2.vs[v].rects) |->
                                        w2.vs[v].rects[IndexOf(w2.vs[v].rects, id)].rect ]]
    /\ since' = [since EXCEPT ![v] = "nothing"]
    /\ UNCHANGED << dropped, window_queue, rectAtPush, ops >>

VStackSetSize(v, size) ==
    /\ Called
    /\ Alive(v)
    /\ Commit(VStackSetSizeOp(World, v, size))
    /\ Touch({v}, "trigger")
    /\ last' = [NoLast EXCEPT !.op = "set_size", !.w = v]
    /\ UNCHANGED << dropped, window_queue, rectAtPush >>

VStackSetPosition(v, pos) ==
    /\ Called
    /\ Alive(v)
    /\ Commit(VStackSetPositionOp(World, v, pos))
    /\ Touch({v}, "trigger")
    /\ last' = [NoLast EXCEPT !.op = "set_position", !.w = v]
    /\ UNCHANGED << dropped, window_queue, rectAtPush >>

CheckboxSetSize(c, size) ==
    /\ Called
    /\ Alive(c)
    /\ Commit(CheckboxSetSizeOp(World, c, size))
    /\ Touch(Manager(c), "trigger")
    /\ last' = [NoLast EXCEPT !.op = "set_size", !.w = c]
    /\ UNCHANGED << dropped, window_queue, rectAtPush >>

CheckboxSetPosition(c, pos) ==
    /\ Called
    /\ Alive(c)
    /\ Commit(CheckboxSetPositionOp(World, c, pos))
    /\ Touch(Manager(c), "trigger")
    /\ last' = [NoLast EXCEPT !.op = "set_position", !.w = c]
    /\ UNCHANGED << dropped, window_queue, rectAtPush >>

CheckboxUpdate(c) ==
    /\ Alive(c)
    /\ \E w1 \in { CheckboxUpdateOp(World, c, window_queue) } : Commit(w1)
    /\ last' = [NoLast EXCEPT !.op = "update", !.w = c,
                              !.rectBefore = rect[c],
                              !.pending = Inbox(evq, layout[c]),
                              !.repaintBefore = cb[c].repaint,
                              !.focusedBefore = "FOCUSED" \in cb[c].interaction,
                              !.focusedAfter = "FOCUSED" \in cb'[c].interaction,
                              !.queueBefore = Len(cb[c].event_queue),
                              !.cursorBefore = cb[c].cursor,
                              !.changesBefore = cb[c].checked_changes,
                              !.checkedBefore = cb[c].checked,
                              !.interactionBefore = cb[c].interaction,
                              !.setsBefore = cb[c].checked_sets]
    /\ UNCHANGED << dropped, window_queue, rectAtPush, since, ops >>

\* Drop for Checkbox: the DropEvent is emitted and the widget's fields, its
\* layout binding among them, are gone.
CheckboxDrop(c) ==
    /\ Called
    /\ Alive(c)
    /\ dropped' = [dropped EXCEPT ![c] = TRUE]
    /\ Commit(ListenToLayout(World, c, None))
    /\ Touch(Holders(c), "other")
    /\ last' = [NoLast EXCEPT !.op = "drop", !.w = c, !.rectBefore = rect[c]]
    /\ UNCHANGED << window_queue, rectAtPush >>

CheckboxDraw(c) ==
    /\ Alive(c)
    /\ cb[c].repaint
    /\ cb' = [cb EXCEPT ![c] = DrawOp(@)]
    /\ last' = [NoLast EXCEPT !.op = "draw", !.w = c]
    /\ UNCHANGED << rect, layout, dropped, vs, evq, window_queue, rectAtPush, since, ops >>

TheCheckbox == "c1"

\* The driver emits a window event.
WindowEmit(event) ==
    /\ Len(window_queue) + cb[TheCheckbox].disabled_sets < MaxInputs
    /\ window_queue' = Append(window_queue, event)
    /\ last' = [NoLast EXCEPT !.op = "emit"]
    /\ UNCHANGED << rect, layout, dropped, vs, evq, cb, rectAtPush, since, ops >>

\* The application sets the disabled observable.
SetDisabled(c, value) ==
    /\ Alive(c)
    /\ Len(window_queue) + cb[c].disabled_sets < MaxInputs
    /\ cb' = [cb EXCEPT ![c] = DisabledSet(@, value)]
    /\ last' = [NoLast EXCEPT !.op = "set_disabled", !.w = c]
    /\ UNCHANGED << rect, layout, dropped, vs, evq, window_queue, rectAtPush, since, ops >>

\* ---------------------------------------------------------- specifications
\* One checkbox driven by window events.
NextCheckbox ==
    \/ \E event \in WindowEvents : WindowEmit(event)
    \/ CheckboxUpdate(TheCheckbox)
    \/ \E value \in BOOLEAN : SetDisabled(TheCheckbox, value)
    \/ CheckboxDraw(TheCheckbox)

SpecCheckbox == Init /\ [][NextCheckbox]_vars

\* One container and the two checkboxes it lays out.
TheStack == "v1"
Pair == {"c1", "c2"}

NextLayout ==
    \/ \E c \in Pair : \E opt \in PushData(c) : Push(TheStack, opt, c)
    \/ \E c \in Pair, restore \in BOOLEAN : Remove(TheStack, c, restore)
    \/ VStackUpdate(TheStack)
    \/ \E size \in Sizes : VStackSetSize(TheStack, size)
    \/ \E pos \in Positions : VStackSetPosition(TheStack, pos)
    \/ \E c \in Pair, size \in Sizes : CheckboxSetSize(c, size)
    \/ \E c \in Pair : CheckboxUpdate(c)
    \/ \E c \in Pair : CheckboxDrop(c)

SpecLayout == InitLayout /\ [][NextLayout]_vars

\* One container and one checkbox, which is also drawn.
NextInbox ==
    \/ \E opt \in PushData("c1") \cup PushData("c2") : Push(TheStack, opt, TheCheckbox)
    \/ \E restore \in BOOLEAN : Remove(TheStack, TheCheckbox, restore)
    \/ VStackUpdate(TheStack)
    \/ \E pos \in Positions : VStackSetPosition(TheStack, pos)
    \/ \E size \in Sizes : CheckboxSetSize(TheCheckbox, size)
    \/ \E pos \in Positions : CheckboxSetPosition(TheCheckbox, pos)
    \/ CheckboxUpdate(TheCheckbox)
    \/ CheckboxDraw(TheCheckbox)

SpecInbox == InitLayout /\ [][NextInbox]_vars

\* Two containers and the two checkboxes pushed to either of them.
NextTwo ==
    \/ \E v \in Stacks, c \in Pair : Push(v, <<>>, c)
    \/ \E v \in Stacks, c \in Pair, restore \in BOOLEAN : Remove(v, c, restore)
    \/ \E v \in Stacks : VStackUpdate(v)
    \/ \E c \in Pair : CheckboxUpdate(c)
    \/ \E c \in Pair : CheckboxDrop(c)

SpecTwo == InitLayout /\ [][NextTwo]_vars

\* One container and three checkboxes that come and go.
NextStack ==
    \/ \E c \in Leaves : Push(TheStack, StackData(c), c)
    \/ \E c \in Leaves : Remove(TheStack, c, FALSE)
    \/ VStackUpdate(TheStack)
    \/ \E c \in Leaves, size \in Sizes : CheckboxSetSize(c, size)
    \/ \E c \in Leaves : CheckboxDrop(c)

SpecStack == InitStack /\ [][NextStack]_vars

\* A container nested in a container: v2 is pushed to v1 and lays out a checkbox.
Inner == "v2"

\* update of the nested container; the checkbox has read its inbox often enough.
InnerUpdate ==
    /\ Len(Inbox(evq, layout[TheCheckbox])) < MaxPending
    /\ VStackUpdate(Inner)

NextNested ==
    \/ \E opt \in PushData(Inner) : Push(TheStack, opt, Inner)
    \/ \E opt \in PushData(TheCheckbox) : Push(Inner, opt, TheCheckbox)
    \/ \E size \in Sizes : CheckboxSetSize(TheCheckbox, size)
    \/ VStackUpdate(TheStack)
    \/ InnerUpdate
    \/ CheckboxUpdate(TheCheckbox)

\* The application's loop updates every widget again and again.
SpecNested ==
    /\ InitLayout
    /\ [][NextNested]_vars
    /\ WF_vars(VStackUpdate(TheStack))
    /\ WF_vars(InnerUpdate)
    /\ WF_vars(CheckboxUpdate(TheCheckbox))

Next == NextCheckbox \/ NextLayout \/ NextInbox \/ NextTwo \/ NextStack \/ NextNested

Spec == Init /\ [][Next]_vars

\* ------------------------------------------------------------------ claims
IsStackUpdate == last.op = "update" /\ last.w \in Stacks
IsCheckboxUpdate == last.op = "update" /\ last.w \in Leaves

\* The Press and Check events of an event queue, in order.
PressAndCheck(q) == SelectSeq(q, LAMBDA e : e.kind \in {"Press", "Check"})

Count(q, kind, toggle) ==
    Len(SelectSeq(q, LAMBDA e : e.kind = kind /\ e.toggle = toggle))

\* C1: once a left press inside the bounds and then a left release were handled
\* (the first accepted release), the event queue holds Press(Start), Press(Stop)
\* and then Check(Start) if the checkbox was unchecked, Check(Stop) if it was
\* checked, in this order.
C1_PressReleaseEvents ==
    LET o == cb[TheCheckbox]
        q == PressAndCheck(o.event_queue)
        third == IF o.checked0 THEN "Stop" ELSE "Start"
    IN o.releases = 1 =>
         \E i \in 1..(Len(q) - 2) :
            /\ q[i].kind = "Press" /\ q[i].toggle = "Start"
            /\ q[i + 1].kind = "Press" /\ q[i + 1].toggle = "Stop"
            /\ q[i + 2].kind = "Check" /\ q[i + 2].toggle = third

\* C2: an update of a container that nothing touched since its previous update
\* finds the dirty flag false, emits no rectangle and leaves the flag false.
C2_LayoutIdempotence ==
    /\ \A v \in Stacks : since[v] = "nothing" => ~vs[v].dirty
    /\ (IsStackUpdate /\ last.since = "nothing") =>
          /\ ~last.dirty
          /\ last.emitted = <<>>
          /\ ~vs[last.w].dirty

C2_Witness ==
    /\ IsStackUpdate /\ last.since = "nothing"
    /\ Len(vs[last.w].rects) = 2

\* C3: after a push, a remove that found its record, a geometry report of a
\* managed child or a resize or move of the container, the next update lays out:
\* it emits a rectangle to every record still registered.
C3_TriggersMarkDirty ==
    (IsStackUpdate /\ last.since = "trigger") =>
        /\ last.dirty
        /\ DOMAIN last.emitted = Ids(vs[last.w].rects)

\* The records an update removed.
Purged == last.idsBefore \ Ids(vs[last.w].rects)

\* C4: an update of a container leaves no record of a dropped child; the record is
\* gone before the layout is computed and no rectangle is emitted to it; the
\* children that remain are laid out in the same update; and a dropped child's
\* rectangle is never changed again.
C4_DropCleanupState ==
    IsStackUpdate =>
        /\ \A i \in 1..Len(vs[last.w].rects) : ~dropped[vs[last.w].rects[i].child]
        /\ DOMAIN last.recorded = Ids(vs[last.w].rects)
        /\ DOMAIN last.emitted \subseteq Ids(vs[last.w].rects)
        /\ Purged # {} => (last.dirty /\ DOMAIN last.emitted = Ids(vs[last.w].rects))

C4_DropCleanup ==
    /\ []C4_DropCleanupState
    /\ [][\A w \in Widgets : dropped[w] => rect'[w] = rect[w]]_vars

C4_Witness ==
    /\ IsStackUpdate
    /\ Purged # {}
    /\ Len(vs[last.w].rects) >= 1

\* C5: remove on the container that manages the child clears the child's binding;
\* with restore_original the child's rectangle is the one it had at the push,
\* without it the rectangle is left as it was.
C5_RestoreOnRemove ==
    (last.op = "remove" /\ last.managed) =>
        /\ layout[last.c] = None
        /\ last.restore => rect[last.c] = rectAtPush[last.c]
        /\ ~last.restore => rect[last.c] = last.rectBefore

C5_Witness ==
    /\ last.op = "remove" /\ last.managed /\ last.restore
    /\ rect[last.c] # last.rectBefore
    /\ Len(vs[last.w].rects) >= 1

\* The alignment of the record with this id.
AlignmentOf(v, id) == vs[v].rects[IndexOf(vs[v].rects, id)].data.alignment

\* C6: the rectangle a dirty update emits to a child of recorded width w, in a
\* container at horizontal origin X of width W: Begin x = X, Middle
\* x = X + (W - w) / 2, End x = X + W - w, each with the width w; Stretch x = X
\* with the width W.
C6_Alignment ==
    IsStackUpdate =>
        \A id \in DOMAIN last.emitted :
            LET e == last.emitted[id]
                w == last.recorded[id].w
                X == rect[last.w].x
                W == rect[last.w].w
                a == AlignmentOf(last.w, id)
            IN /\ a = "Begin" => (e.x = X /\ e.w = w)
               /\ a = "Middle" => (2 * (e.x - X) = W - w /\ e.w = w)
               /\ a = "End" => (e.x = X + W - w /\ e.w = w)
               /\ a = "Stretch" => (e.x = X /\ e.w = W)

C6_Witness ==
    /\ IsStackUpdate
    /\ rect[last.w].x # 0
    /\ \E id \in DOMAIN last.emitted :
          AlignmentOf(last.w, id) = "Middle" /\ last.emitted[id].x # rect[last.w].x
    /\ \E id \in DOMAIN last.emitted :
          AlignmentOf(last.w, id) \in {"End", "Stretch"}

Odd(n) == n % 2 = 1

\* C7: every accepted mouse_release flips checked once and calls its setter once;
\* nothing else a window event does changes checked.
C7_FlipsOnce ==
    \A c \in Leaves :
        /\ cb[c].checked = (cb[c].checked0 # Odd(cb[c].releases))
        /\ cb[c].checked_sets = cb[c].releases

C7_Witness ==
    /\ IsCheckboxUpdate
    /\ cb[last.w].presses >= 1
    /\ cb[last.w].releases = 1
    /\ cb[last.w].checked # cb[last.w].checked0

\* The window events up to the nth whose topic has a handler, in emission order.
HandledUpTo(n) ==
    SelectSeq([ i \in 1..n |-> i ], LAMBDA i : window_queue[i].topic \in HandledTopics)

C9_ChildAdoptsRect ==
    IsCheckboxUpdate =>
        /\ last.pending # <<>> => (rect[last.w] = Last(last.pending) /\ cb[last.w].repaint)
        /\ last.pending = <<>> => rect[last.w] = last.rectBefore

C9_Witness ==
    /\ IsCheckboxUpdate
    /\ Len(last.pending) >= 2
    /\ last.pending[1] # Last(last.pending)
    /\ ~last.repaintBefore
    /\ rect[last.w] # last.rectBefore

\* C10: after every update the event queue holds one Focus(Start) for every time
\* the FOCUSED flag was set and one Focus(Stop) for every time it was cleared.
C10_FocusEvents ==
    (IsCheckboxUpdate /\ last.w = TheCheckbox) =>
        /\ Count(cb[TheCheckbox].event_queue, "Focus", "Start") = cb[TheCheckbox].focus_gains
        /\ Count(cb[TheCheckbox].event_queue, "Focus", "Stop") = cb[TheCheckbox].focus_losses

\* The MouseHover events of an event queue, in order.
Hovers(q) == SelectSeq(q, LAMBDA e : e.kind = "MouseHover")

\* The mouse_move events handed to the handlers so far.
MovesDelivered(o) ==
    SelectSeq(o.delivered, LAMBDA i : window_queue[i].topic = "mouse_move")

\* C11: the MouseHover events of the event queue alternate Start, Stop, Start, ...
\* beginning with Start; a Start carries a position inside the bounds and a Stop
\* one outside, each the position of a handled mouse_move; and HOVERED is set
\* exactly when the latest of them is a Start.
C11_HoverAlternates ==
    LET o == cb[TheCheckbox]
        h == Hovers(o.event_queue)
    IN /\ \A i \in 1..Len(h) : h[i].toggle = (IF Odd(i) THEN "Start" ELSE "Stop")
       /\ \A i \in 1..Len(h) :
             /\ Contains(Bounds(rect[TheCheckbox]), h[i].data) = (h[i].toggle = "Start")
             /\ \E j \in 1..Len(MovesDelivered(o)) :
                   window_queue[MovesDelivered(o)[j]].pos = h[i].data
       /\ Len(h) <= Len(MovesDelivered(o))
       /\ ("HOVERED" \in o.interaction) = Odd(Len(h))

C11_Witness ==
    /\ IsCheckboxUpdate /\ last.w = TheCheckbox
    /\ Len(Hovers(cb[TheCheckbox].event_queue)) = 2
    /\ Len(MovesDelivered(cb[TheCheckbox])) = 3

\* C12: a push hands out the container's next identifier, which no record of the
\* container has; the record is added under it and none is overwritten; the keys
\* of a container's records are pairwise distinct, each record's id is its key,
\* and every identifier handed out is below the counter, which never goes back.
C12_FreshIdsState ==
    /\ \A v \in Stacks :
          /\ Cardinality(Ids(vs[v].rects)) = Len(vs[v].rects)
          /\ \A i \in 1..Len(vs[v].rects) :
                /\ vs[v].rects[i].id = vs[v].rects[i].key
                /\ vs[v].rects[i].key < vs[v].next_rect_id
          /\ \A w \in Widgets :
                (layout[w] # None /\ layout[w].owner = v) => layout[w].id < vs[v].next_rect_id
    /\ last.op = "push" =>
          /\ layout[last.c] = [owner |-> last.w, id |-> last.nextBefore]
          /\ last.nextBefore \notin Ids(last.recsBefore)
          /\ vs[last.w].next_rect_id = last.nextBefore + 1
          /\ Len(vs[last.w].rects) = Len(last.recsBefore) + 1
          /\ \A i \in 1..Len(last.recsBefore) : vs[last.w].rects[i].key = last.recsBefore[i].key
          /\ Last(vs[last.w].rects).key = last.nextBefore

C12_FreshIds ==
    /\ []C12_FreshIdsState
    /\ [][\A v \in Stacks : vs'[v].next_rect_id >= vs[v].next_rect_id]_vars

C12_Witness ==
    /\ last.op = "push"
    /\ last.recsBefore = <<>>
    /\ last.nextBefore >= 1
    /\ \E c \in Pair : dropped[c]

\* The sum of height and margins, and the greatest width, over a sequence of records.
RECURSIVE SumHeights(_)
SumHeights(recs) ==
    IF recs = <<>> THEN 0
    ELSE recs[1].rect.h + recs[1].data.top_margin + recs[1].data.bottom_margin
           + SumHeights(Tail(recs))

MaxWidth(recs) ==
    IF recs = <<>> THEN 0
    ELSE CHOOSE m \in { recs[i].rect.w : i \in 1..Len(recs) } :
            \A i \in 1..Len(recs) : recs[i].rect.w <= m

\* C13: at the end of a dirty update the container's height is the sum over its
\* records of height + top margin + bottom margin and its width is the greatest
\* recorded width (both zero without records), whatever size was set from outside.
C13_DerivedSize ==
    (IsStackUpdate /\ last.dirty) =>
        /\ rect[last.w].h = SumHeights(vs[last.w].rects)
        /\ rect[last.w].w = MaxWidth(vs[last.w].rects)
        /\ rect[last.w].w = MaxWidth([ i \in 1..Len(vs[last.w].rects) |->
                                         [rect |-> last.recorded[vs[last.w].rects[i].key]] ])

C13_Witness ==
    /\ IsStackUpdate /\ last.dirty
    /\ Len(vs[last.w].rects) = 2
    /\ \E size \in Sizes : last.rectBefore.w = size.w /\ last.rectBefore.h = size.h
    /\ \A size \in Sizes : rect[last.w].w # size.w /\ rect[last.w].h # size.h

\* The records in registration order: identifiers are handed out in push order.
ByRegistration(recs) ==
    [ i \in 1..Len(recs) |->
        CHOOSE r \in { recs[j] : j \in 1..Len(recs) } :
            Cardinality({ j \in 1..Len(recs) : recs[j].key < r.key }) = i - 1 ]

\* Every record of the container is the one its child is bound to.
AllBound(v) ==
    \A i \in 1..Len(vs[v].rects) :
        layout[vs[v].rects[i].child] = [owner |-> v, id |-> vs[v].rects[i].key]

\* C14: a dirty update places the children in push order: the first at the
\* container's y plus its top margin, each later one at the previous child's
\* y + height + bottom margin plus its own top margin; no two overlap vertically.
\* (Stated for containers each of whose records is its child's current binding.)
C14_RegistrationOrder ==
    (IsStackUpdate /\ last.dirty /\ AllBound(last.w)) =>
        LET order == ByRegistration(vs[last.w].rects)
            e(i) == last.emitted[order[i].key]
        IN \A i \in 1..Len(order) :
              /\ e(i).y = (IF i = 1 THEN rect[last.w].y
                           ELSE e(i - 1).y + e(i - 1).h + order[i - 1].data.bottom_margin)
                          + order[i].data.top_margin
              /\ \A j \in 1..(i - 1) : e(j).y + e(j).h <= e(i).y

\* C15: a change event of checked is handled by the change binding once, and not
\* by the update pass in which the release handler emitted it: after an update the
\* changes handled are those emitted before that update began, and the changes
\* emitted during it are all pending.
C15_ChangeNextPass ==
    LET o == cb[TheCheckbox]
    IN /\ o.checked_changes + o.changes_handled = o.checked_sets
       /\ (IsCheckboxUpdate /\ last.w = TheCheckbox) =>
             /\ o.changes_handled = last.setsBefore
             /\ o.checked_changes = o.checked_sets - last.setsBefore

C15_Witness ==
    /\ IsCheckboxUpdate /\ last.w = TheCheckbox
    /\ last.changesBefore = 1
    /\ cb[TheCheckbox].changes_handled = 1
    /\ cb[TheCheckbox].releases = 1

\* What the window events from..to should do to a checkbox, by the rule of C16:
\* a left press inside the bounds of an enabled checkbox is accepted, a left
\* release of an enabled checkbox with an accepted press outstanding toggles, and
\* nothing else has an effect.
RECURSIVE Expected(_, _, _, _, _)
Expected(from, to, disabled, r, st) ==
    IF from > to THEN st
    ELSE LET ev == window_queue[from]
             st1 == IF ev.topic = "mouse_press" /\ ev.button = "Left" /\ ~disabled
                       /\ Contains(r, ev.pos)
                    THEN [st EXCEPT !.pressed = TRUE, !.presses = @ + 1]
                    ELSE IF ev.topic = "mouse_release" /\ ev.button = "Left" /\ ~disabled
                            /\ st.pressed
                         THEN [st EXCEPT !.pressed = FALSE, !.checked = ~@, !.toggles = @ + 1]
                         ELSE st
         IN Expected(from + 1, to, disabled, r, st1)

\* C16: over the window events one update handles, checked changes exactly at
\* the left releases handled while the checkbox is enabled and PRESSED is set;
\* only those releases emit events (two each), an accepted press emits one; and
\* the toggles never outnumber the accepted presses.
C16_TogglesOnlyOnAcceptedRelease ==
    /\ \A c \in Leaves : cb[c].releases <= cb[c].presses
    /\ (IsCheckboxUpdate /\ last.w = TheCheckbox) =>
          LET o == cb[TheCheckbox]
              st == Expected(last.cursorBefore + 1, Len(window_queue), o.disabled,
                             rect[TheCheckbox],
                             [pressed |-> "PRESSED" \in last.interactionBefore,
                              checked |-> last.checkedBefore, presses |-> 0, toggles |-> 0])
              added == SubSeq(o.event_queue, last.queueBefore + 1, Len(o.event_queue))
          IN /\ o.checked = st.checked
             /\ ("PRESSED" \in o.interaction) = st.pressed
             /\ o.checked_sets - last.setsBefore = st.toggles
             /\ Len(PressAndCheck(added)) = st.presses + 2 * st.toggles

C16_Witness ==
    /\ IsCheckboxUpdate /\ last.w = TheCheckbox
    /\ last.cursorBefore = 0 /\ Len(window_queue) = 3
    /\ window_queue[1].topic = "mouse_release" /\ window_queue[1].button = "Left"
    /\ cb[TheCheckbox].releases = 1
    /\ ~cb[TheCheckbox].disabled

\* C17: remove(child, _) on a container the child is not bound to (the child is
\* unmanaged or bound to another container) leaves that container's records and
\* the child's binding and rectangle as they were.
C17_RemoveUnmanaged ==
    (last.op = "remove" /\ (last.layoutBefore = None \/ last.layoutBefore.owner # last.w)) =>
        /\ vs[last.w].rects = last.recsBefore
        /\ layout[last.c] = last.layoutBefore
        /\ rect[last.c] = last.rectBefore

\* C18: every record a container holds belongs to a child that is bound to that
\* container under the record's id, or to a dropped child the next update purges.
C18_RecordsAreBound ==
    \A v \in Stacks : \A i \in 1..Len(vs[v].rects) :
        LET data == vs[v].rects[i]
        IN \/ layout[data.child] = [owner |-> v, id |-> data.key]
           \/ dropped[data.child]

\* No container is dirty and no rectangle is in flight in either direction.
Quiet ==
    /\ \A v \in Stacks : ~vs[v].dirty
    /\ \A k \in DOMAIN evq : evq[k].down = <<>> /\ evq[k].up = <<>>

\* C19: once a container is nested in another for good, repeated updates reach a
\* state from which both dirty flags stay false and no rectangle is emitted.
C19_LayoutConverges ==
    <>[](layout[Inner] # None /\ layout[Inner].owner = TheStack) => <>[]Quiet

\* The greatest of the widths the children of these records had of their own accord.
MaxOwnWidth(recs) ==
    IF recs = <<>> THEN 0
    ELSE CHOOSE m \in { recs[i].own_width : i \in 1..Len(recs) } :
            \A i \in 1..Len(recs) : recs[i].own_width <= m

\* C20: after a dirty update the container is as wide as the widest of its
\* children was of its own accord (at its push, or in its latest report).
C20_WidthFromChildren ==
    (IsStackUpdate /\ last.dirty /\ AllBound(last.w)) =>
        rect[last.w].w = MaxOwnWidth(vs[last.w].rects)

====
